---- MODULE Spec2Model ----
(***************************************************************************)
(* A model of the G.988 parser (parser.py, parser_lib/avc.py).             *)
(*                                                                         *)
(*   Spec     Main.start: load the class ids, deep parse, structural       *)
(*            fixups, class access, validation.                            *)
(*   SpecFix  Main.fix_difficult_class_ids on a drawn catalog: single      *)
(*            fixups applied one at a time, and the whole overlay.         *)
(*   SpecAVC  AVC.create_from_table on a drawn table, row by row.          *)
(*                                                                         *)
(* Python objects that the code aliases (attribute lists, action sets)     *)
(* live in two heaps, attr_lists and action_sets; an entity holds          *)
(* references into them.                                                   *)
(***************************************************************************)
EXTENDS Integers, Sequences, FiniteSets, TLC

VARIABLES
    pc,              \* position of the running program
    class_ids,       \* self.parsed.class_ids: class id -> entity
    attr_lists,      \* heap of attribute lists: reference -> Seq(attribute)
    action_sets,     \* heap of action sets: reference -> set of actions
    attribute_hints, \* self.attribute_hints: class id -> index -> hint
    index_error,     \* the exception an attribute list raises on a missing index
    error,           \* the exception that ended the program, or "None"
    defects,         \* the defect collections of the validation loop
    fixup,           \* SpecFix: the fixup applied last and how many times
    before,          \* SpecFix: the catalog as drawn
    once,            \* SpecFix: the catalog after the first application
    copied,          \* the source entities as they were when a sibling copy read them
    types_cid,       \* SpecTypes: the cid find_attribute_types is at, or 0
    table,           \* SpecAVC: the rows of the table
    row,             \* SpecAVC: the number of rows handled
    avc              \* SpecAVC: the AVC being built, or the returned value

vars == <<pc, class_ids, attr_lists, action_sets, attribute_hints, index_error,
          error, defects, fixup, before, once, copied, types_cid, table, row,
          avc>>

None == "None"

-----------------------------------------------------------------------------
(* Sizes, attributes, entities                                             *)

\* AttributeSize(): the field values of a fresh size object
DefaultSize ==
    [none |-> FALSE, octets |-> 0, repeat_count |-> 1, repeat_max |-> 1,
     getnext_required |-> FALSE]

\* attr.size is None
NoneSize == [DefaultSize EXCEPT !.none = TRUE]

\* attr.access is None
NoneAccess == {None}

\* sz = AttributeSize(); sz._octets = n
NewSize(n) == [DefaultSize EXCEPT !.octets = n]

\* sz = AttributeSize(); sz._octets = n; sz.getnext_required = True
NewTableSize(n) == [DefaultSize EXCEPT !.octets = n, !.getnext_required = TRUE]

\* attr.size.octets
Octets(sz) == sz.octets

Attribute(i, nm, sz, acc) ==
    [index |-> i, name |-> nm, size |-> sz, access |-> acc, optional |-> FALSE,
     getnext_required |-> FALSE, attribute_type |-> "Unknown",
     default |-> None, constraint |-> None]

\* The entity a class id listing creates: nothing parsed yet
NewClassId(cid, section) ==
    [cid |-> cid, name |-> <<"ME">>, section |-> section, state |-> "pending",
     attributes |-> cid, actions |-> 2 * cid, optional_actions |-> 2 * cid + 1,
     alarms |-> {}, avcs |-> <<>>, test_results |-> {}, hidden |-> FALSE,
     access |-> "UnknownAccess"]

\* c.failure(None, None)
Failure(c) == [c EXCEPT !.state = "failure"]

-----------------------------------------------------------------------------
(* The running state a pass works on: st.cat is class_list, st.lists and   *)
(* st.sets are the heaps, st.err the exception raised (or None), st.ix the *)
(* exception of a missing attribute index, st.copied the sibling sources   *)
(* as read by the copies.                                                  *)

Actions == {"Create", "Delete", "Get", "Set", "GetNext", "GetCurrentData"}

AttrsOf(st, c) == st.lists[st.cat[c].attributes]

ActionsOf(st, c) == st.sets[st.cat[c].actions]

OptionalActionsOf(st, c) == st.sets[st.cat[c].optional_actions]

\* An entity with its references followed: what a deep comparison sees
EntityView(st, c) ==
    [st.cat[c] EXCEPT !.attributes = AttrsOf(st, c),
                      !.actions = ActionsOf(st, c),
                      !.optional_actions = OptionalActionsOf(st, c)]

CatalogView(st) == [c \in DOMAIN st.cat |-> EntityView(st, c)]

Raise(st, e) == [st EXCEPT !.err = e]

HasIndex(st, c, i) == i < Len(AttrsOf(st, c))

\* item.attributes[i].size = sz; a missing index raises
SetSize(st, c, i, sz) ==
    IF ~HasIndex(st, c, i) THEN Raise(st, st.ix)
    ELSE [st EXCEPT !.lists[st.cat[c].attributes][i + 1].size = sz]

\* item.attributes[i].name = nm
SetName(st, c, i, nm) ==
    IF ~HasIndex(st, c, i) THEN Raise(st, st.ix)
    ELSE [st EXCEPT !.lists[st.cat[c].attributes][i + 1].name = nm]

\* item.attributes[i].access.add(x) for each x of S
AddAccess(st, c, i, S) ==
    IF ~HasIndex(st, c, i) THEN Raise(st, st.ix)
    ELSE IF AttrsOf(st, c)[i + 1].access = NoneAccess THEN Raise(st, "AttributeError")
    ELSE [st EXCEPT !.lists[st.cat[c].attributes][i + 1].access = @ \cup S]

\* sz = copy.deepcopy(attr.size); sz._octets = -1; attr.size = sz
Unbounded(st, c, i) ==
    IF ~HasIndex(st, c, i) THEN Raise(st, st.ix)
    ELSE IF AttrsOf(st, c)[i + 1].size = NoneSize THEN Raise(st, "AttributeError")
    ELSE [st EXCEPT !.lists[st.cat[c].attributes][i + 1].size.octets = -1]

\* item.attributes[i].size._repeat_count = n; ..._repeat_max = m
SetRepeat(st, c, i, n, m) ==
    IF ~HasIndex(st, c, i) THEN Raise(st, st.ix)
    ELSE IF AttrsOf(st, c)[i + 1].size = NoneSize THEN Raise(st, "AttributeError")
    ELSE [st EXCEPT !.lists[st.cat[c].attributes][i + 1].size.repeat_count = n,
                    !.lists[st.cat[c].attributes][i + 1].size.repeat_max = m]

\* class_list[c].name += ' ME'
AppendME(st, c) == [st EXCEPT !.cat[c].name = @ \o <<" ME">>]

\* a reference no object of the heap has
FreshRef(st) == 1000 + Cardinality(DOMAIN st.lists)

\* item.attributes = <a new list>
BindAttributes(st, c, lst) ==
    LET r == FreshRef(st)
    IN  [st EXCEPT !.cat[c].attributes = r,
                   !.lists = [x \in DOMAIN st.lists \cup {r} |->
                                 IF x = r THEN lst ELSE st.lists[x]]]

\* msci.attributes.remove(i)
RemoveAttr(st, c, i) ==
    IF ~HasIndex(st, c, i) THEN Raise(st, st.ix)
    ELSE LET l == AttrsOf(st, c)
         IN  [st EXCEPT !.lists[st.cat[c].attributes] =
                  SubSeq(l, 1, i) \o SubSeq(l, i + 2, Len(l))]

\* item.actions.remove(a) inside try/except KeyError
DiscardAction(st, c, a) == [st EXCEPT !.sets[st.cat[c].actions] = @ \ {a}]

Fix153(st) ==
    IF 153 \notin DOMAIN st.cat THEN st ELSE SetSize(st, 153, 4, NewSize(2))

Fix158(st) ==
    IF 158 \notin DOMAIN st.cat THEN st ELSE Unbounded(st, 158, 3)

Fix281(st) ==
    IF 281 \notin DOMAIN st.cat THEN st
    ELSE LET s == SetSize(st, 281, 9, NewTableSize(12))
         IN  IF s.err # None THEN s ELSE AddAccess(s, 281, 9, {"Read", "Write"})

Fix287(st) ==
    IF 287 \notin DOMAIN st.cat THEN st
    ELSE IF ~HasIndex(st, 287, 1) THEN Raise(st, st.ix)
    ELSE SetSize([st EXCEPT !.lists[st.cat[287].attributes][2].getnext_required = TRUE],
                 287, 2, NewTableSize(1))

Fix288(st) ==
    IF 288 \notin DOMAIN st.cat THEN st
    ELSE LET s == SetSize(AppendME(st, 288), 288, 4, NewSize(1))
         IN  IF s.err # None THEN s ELSE SetSize(s, 288, 5, NewSize(1))

Fix289(st) ==
    IF 289 \notin DOMAIN st.cat THEN st ELSE AppendME(st, 289)

Fix299(st) ==
    IF 299 \notin DOMAIN st.cat THEN st ELSE SetRepeat(st, 299, 3, 2, 2)

Fix300(st) ==
    IF 300 \notin DOMAIN st.cat THEN st
    ELSE LET s == SetRepeat(st, 300, 3, 2, 2)
         IN  IF s.err # None THEN s ELSE SetSize(s, 300, 5, NewSize(24))

Fix307(st) ==
    IF 307 \notin DOMAIN st.cat THEN st
    ELSE IF ~HasIndex(st, 307, 2) THEN Raise(st, st.ix)
    ELSE LET r == st.cat[307].attributes
             s == [st EXCEPT !.lists[r][3].name = "Part 1 to 15",
                             !.lists[r][3].optional = FALSE]
         IN  IF s.lists[r][3].size = NoneSize THEN Raise(s, "AttributeError")
             ELSE [s EXCEPT !.lists[r][3].size.repeat_max = 15]

Fix308(st) ==
    IF 308 \notin DOMAIN st.cat THEN st ELSE Unbounded(st, 308, 2)

Fix309(st) ==
    IF 309 \notin DOMAIN st.cat \/ Len(AttrsOf(st, 309)) # 20 THEN st
    ELSE LET l == AttrsOf(st, 309)
             first_bad == 8
             next_good == 11
         IN  SetName(BindAttributes(st, 309,
                         SubSeq(l, 1, first_bad) \o SubSeq(l, next_good + 1, Len(l))),
                     309, 16, "Downstream IGMP and multicast TCI")

Fix310(st) ==
    IF 310 \notin DOMAIN st.cat THEN st
    ELSE LET s1 == RemoveAttr(st, 310, 8)
             s2 == IF s1.err # None THEN s1 ELSE SetSize(s1, 310, 7, NewTableSize(22))
         IN  IF s2.err # None THEN s2 ELSE AddAccess(s2, 310, 7, {"Read", "Write"})

\* Fix321 without the copy of the action set
Fix321KeepsActions(st) ==
    IF 321 \notin DOMAIN st.cat \/ 322 \notin DOMAIN st.cat THEN st
    ELSE LET up == st.cat[322]
         IN  [st EXCEPT !.cat[321].attributes = up.attributes,
                        !.cat[321].optional_actions = up.optional_actions,
                        !.cat[321].alarms = up.alarms,
                        !.cat[321].avcs = up.avcs,
                        !.cat[321].test_results = up.test_results,
                        !.cat[321].hidden = up.hidden,
                        !.copied = [x \in DOMAIN st.copied \cup {321} |->
                                       IF x = 321 THEN EntityView(st, 322)
                                       ELSE st.copied[x]]]

\* down.<field> = up.<field>: the target refers to the source's objects
Fix321(st) ==
    IF 321 \notin DOMAIN st.cat \/ 322 \notin DOMAIN st.cat THEN st
    ELSE LET up == st.cat[322]
         IN  [st EXCEPT !.cat[321].attributes = up.attributes,
                        !.cat[321].actions = up.actions,
                        !.cat[321].optional_actions = up.optional_actions,
                        !.cat[321].alarms = up.alarms,
                        !.cat[321].avcs = up.avcs,
                        !.cat[321].test_results = up.test_results,
                        !.cat[321].hidden = up.hidden,
                        !.copied = [x \in DOMAIN st.copied \cup {321} |->
                                       IF x = 321 THEN EntityView(st, 322)
                                       ELSE st.copied[x]]]

Fix325(st) ==
    IF 325 \notin DOMAIN st.cat THEN st ELSE DiscardAction(st, 325, "GetNext")

\* try: item.attributes[7].access.add(Read) except KeyError: pass
Fix332(st) ==
    IF 332 \notin DOMAIN st.cat THEN st
    ELSE IF ~HasIndex(st, 332, 7) /\ st.ix = "KeyError" THEN st
    ELSE AddAccess(st, 332, 7, {"Read"})

Fix414(st) ==
    IF 414 \notin DOMAIN st.cat THEN st ELSE DiscardAction(st, 414, "GetNext")

\* the copy of 334 into 426, then 8 octets for the attributes 3..16
Copy334(st) ==
    LET src  == st.cat[334]
        l    == AttrsOf(st, 334)
        sz   == NewSize(8)
        l64  == [j \in 1..Len(l) |->
                    IF j - 1 \in 3..16 THEN [l[j] EXCEPT !.size = sz] ELSE l[j]]
        s1   == BindAttributes(st, 426, l64)
        s2   == [s1 EXCEPT !.cat[426].actions = src.actions,
                           !.cat[426].optional_actions = src.optional_actions,
                           !.cat[426].alarms = src.alarms,
                           !.cat[426].avcs = src.avcs,
                           !.cat[426].test_results = src.test_results,
                           !.cat[426].hidden = src.hidden,
                           !.copied = [x \in DOMAIN st.copied \cup {426} |->
                                          IF x = 426 THEN EntityView(st, 334)
                                          ELSE st.copied[x]]]
    IN  \* for index in range(3, 17) inside try/except KeyError
        IF Len(l) < 17 /\ st.ix # "KeyError" THEN Raise(s2, st.ix) ELSE s2

Fix426(st) ==
    IF 426 \notin DOMAIN st.cat THEN st
    ELSE LET s1 == [st EXCEPT
                       !.sets[st.cat[426].actions] =
                           @ \cup {"Create", "Delete", "Get", "Set"}]
             s2 == [s1 EXCEPT
                       !.sets[s1.cat[426].optional_actions] =
                           @ \cup {"GetCurrentData"}]
         IN  IF 334 \in DOMAIN s2.cat THEN Copy334(s2) ELSE s2

\* The class ids fix_difficult_class_ids handles, in the order of its code
FixOrder ==
    <<153, 158, 281, 287, 288, 289, 299, 300, 307, 308, 309, 310, 321, 325, 332,
      414, 426>>

FixIds == {FixOrder[i] : i \in 1..Len(FixOrder)}

\* The fixup of class id c
FixOne(c, st) ==
    CASE c = 153 -> Fix153(st)
      [] c = 158 -> Fix158(st)
      [] c = 281 -> Fix281(st)
      [] c = 287 -> Fix287(st)
      [] c = 288 -> Fix288(st)
      [] c = 289 -> Fix289(st)
      [] c = 299 -> Fix299(st)
      [] c = 300 -> Fix300(st)
      [] c = 307 -> Fix307(st)
      [] c = 308 -> Fix308(st)
      [] c = 309 -> Fix309(st)
      [] c = 310 -> Fix310(st)
      [] c = 321 -> Fix321(st)
      [] c = 325 -> Fix325(st)
      [] c = 332 -> Fix332(st)
      [] c = 414 -> Fix414(st)
      [] c = 426 -> Fix426(st)

RECURSIVE FixFrom(_, _)
\* the fixups from the i-th on, each run unless an exception is on its way
FixFrom(i, st) ==
    IF i > Len(FixOrder) \/ st.err # None THEN st
    ELSE FixFrom(i + 1, FixOne(FixOrder[i], st))

\* Main.fix_other_difficulties
FixOtherDifficulties(st) == st

-----------------------------------------------------------------------------
(* Hints and type inference                                                *)

\* Names that hold a counter keyword
CounterNames == {"Frames counter"}

\* attr.find_type(item): name keyword first, then the shape of the size
FindType(a) ==
    IF a.name \in CounterNames THEN "Counter"
    ELSE IF a.size # NoneSize /\ (a.size.octets = -1 \/ a.size.repeat_max > 1)
         THEN "Table"
    ELSE "Unknown"

\* one hint on one attribute: only the fields the hint names
ApplyHint(a, h) ==
    [a EXCEPT !.attribute_type = IF "type" \in DOMAIN h THEN h["type"] ELSE @,
              !.default = IF "default" \in DOMAIN h THEN h["default"] ELSE @,
              !.constraint = IF "constraint" \in DOMAIN h THEN h["constraint"] ELSE @]

\* next((attr for attr in item.attributes if attr.index == index), None)
FirstWithIndex(l, index) ==
    LET hits == {j \in 1..Len(l) : l[j].index = index}
    IN  IF hits = {} THEN 0 ELSE CHOOSE j \in hits : \A k \in hits : j <= k

\* the hints of one class on its attribute list
ApplyHints(l, hints) ==
    [j \in 1..Len(l) |->
        IF l[j].index \in DOMAIN hints /\ FirstWithIndex(l, l[j].index) = j
        THEN ApplyHint(l[j], hints[l[j].index])
        ELSE l[j]]

\* InferTypes without the test for an unknown type
InferTypesAlways(l) ==
    [j \in 1..Len(l) |-> [l[j] EXCEPT !.attribute_type = FindType(l[j])]]

\* for attr in item.attributes: find_type where the type is Unknown
InferTypes(l) ==
    [j \in 1..Len(l) |->
        IF l[j].attribute_type = "Unknown"
        THEN [l[j] EXCEPT !.attribute_type = FindType(l[j])]
        ELSE l[j]]

\* the body of the loop of find_attribute_types for one class
TypesOfClass(c, st, hints) ==
    LET l  == AttrsOf(st, c)
        l1 == IF c \in DOMAIN hints THEN ApplyHints(l, hints[c]) ELSE l
    IN  [st EXCEPT !.lists[st.cat[c].attributes] = InferTypes(l1)]

RECURSIVE TypesOfClasses(_, _, _)
TypesOfClasses(S, st, hints) ==
    IF S = {} THEN st
    ELSE LET c == CHOOSE x \in S : \A y \in S : x <= y
         IN  TypesOfClasses(S \ {c}, TypesOfClass(c, st, hints), hints)

\* Main.find_attribute_types
FindAttributeTypes(st, hints) == TypesOfClasses(DOMAIN st.cat, st, hints)

\* Main.fix_difficult_class_ids
FixDifficultClassIds(st, hints) ==
    LET s == FixFrom(1, st)
    IN  IF s.err # None THEN s ELSE FindAttributeTypes(FixOtherDifficulties(s), hints)

\* ClassAccess without the test for a non-empty action set
ClassAccessAnyActions(item, actions) ==
    IF item.access = "UnknownAccess"
    THEN IF "Create" \in actions
         THEN [item EXCEPT !.access = "CreatedByOlt"]
         ELSE [item EXCEPT !.access = "CreatedByOnu"]
    ELSE item

\* Main.find_class_access for one item
ClassAccess(item, actions) ==
    IF item.access = "UnknownAccess" /\ Cardinality(actions) # 0
    THEN IF "Create" \in actions
         THEN [item EXCEPT !.access = "CreatedByOlt"]
         ELSE [item EXCEPT !.access = "CreatedByOnu"]
    ELSE item

\* Main.find_class_access
FindClassAccess(st) ==
    [st EXCEPT !.cat = [c \in DOMAIN st.cat |-> ClassAccess(st.cat[c], ActionsOf(st, c))]]

-----------------------------------------------------------------------------
(* Validation: the loop of Main.start over final_class_ids                 *)

\* the bound on the attributes of one entity, the entity id counted
MaxAttributes == 17

NoAccess(a) == a.access = NoneAccess \/ Cardinality(a.access) = 0

NoSize(a) == a.size = NoneSize

ZeroSize(a) == a.size # NoneSize /\ Octets(a.size) = 0

\* the attributes the loop looks at: none when there are none or too many
Inspected(l) ==
    IF Len(l) = 0 \/ Len(l) > MaxAttributes THEN {} ELSE {l[j] : j \in 1..Len(l)}

\* MarkedInvalid without the zero-octet test of an attribute's size
MarkedInvalidNoZeroSize(l, actions) ==
    \/ Cardinality(actions) = 0
    \/ Len(l) = 0
    \/ Len(l) > MaxAttributes
    \/ \E a \in Inspected(l) : NoAccess(a) \/ NoSize(a)

\* MarkedInvalid with the attribute count compared a step too far
MarkedInvalidOffByOne(l, actions) ==
    \/ Cardinality(actions) = 0
    \/ Len(l) = 0
    \/ Len(l) > MaxAttributes + 1
    \/ \E a \in {l[j] : j \in 1..Len(l)} : NoAccess(a) \/ NoSize(a) \/ ZeroSize(a)

\* whether the loop calls c.failure for an entity with these lists
MarkedInvalid(l, actions) ==
    \/ Cardinality(actions) = 0
    \/ Len(l) = 0
    \/ Len(l) > MaxAttributes
    \/ \E a \in Inspected(l) : NoAccess(a) \/ NoSize(a) \/ ZeroSize(a)

\* ValidateClass setting the state from the defects alone
ValidateClassByDefects(c, l, actions) ==
    IF MarkedInvalid(l, actions) THEN Failure(c) ELSE [c EXCEPT !.state = "complete"]

\* the body of the loop for one entity
ValidateClass(c, l, actions) == IF MarkedInvalid(l, actions) THEN Failure(c) ELSE c

\* the defect collections the loop fills, as sets of class ids
Defects(st) ==
    LET ids == DOMAIN st.cat
        L(c) == AttrsOf(st, c)
    IN  [class_with_issues |->
             {c \in ids : \/ st.cat[c].state # "complete"
                          \/ Cardinality(ActionsOf(st, c)) = 0
                          \/ Len(L(c)) = 0
                          \/ Len(L(c)) > MaxAttributes},
         class_with_no_actions |-> {c \in ids : Cardinality(ActionsOf(st, c)) = 0},
         class_with_no_attributes |-> {c \in ids : Len(L(c)) = 0},
         class_with_too_many_attributes |-> {c \in ids : Len(L(c)) > MaxAttributes},
         attributes_with_no_access |->
             {c \in ids : \E a \in Inspected(L(c)) : NoAccess(a)},
         attributes_with_no_size |->
             {c \in ids : \E a \in Inspected(L(c)) : NoSize(a)},
         attributes_with_zero_size |->
             {c \in ids : \E a \in Inspected(L(c)) : ZeroSize(a)}]

NoDefects ==
    [class_with_issues |-> {}, class_with_no_actions |-> {},
     class_with_no_attributes |-> {}, class_with_too_many_attributes |-> {},
     attributes_with_no_access |-> {}, attributes_with_no_size |-> {},
     attributes_with_zero_size |-> {}]

Validate(st) ==
    [st EXCEPT !.cat = [c \in DOMAIN st.cat |->
                           ValidateClass(st.cat[c], AttrsOf(st, c), ActionsOf(st, c))]]

-----------------------------------------------------------------------------
(* What the document yields: attribute lists and parse outcomes            *)

EntityIdAttribute == Attribute(0, "Managed entity ID", NewSize(2), {"Read"})

\* the attribute with index i of a list of the given kind
AttributeOfKind(i, kind) ==
    CASE kind = "good"        -> Attribute(i, "Attribute", NewSize(1), {"Read", "Write"})
      [] kind = "no_access"   -> Attribute(i, "Attribute", NewSize(1), {})
      [] kind = "none_access" -> Attribute(i, "Attribute", NewSize(1), NoneAccess)
      [] kind = "no_size"     -> Attribute(i, "Attribute", NoneSize, {"Read"})
      [] kind = "zero_size"   -> Attribute(i, "Attribute", NewSize(0), {"Read"})
      [] kind = "repeat"      -> Attribute(i, "Frames counter",
                                           [NewSize(4) EXCEPT !.repeat_max = 3],
                                           {"Read", "GetNext"})
      [] kind = "mixed"       ->
             IF i = 1 THEN Attribute(i, "Attribute", NewSize(1), {})
             ELSE IF i = 2 THEN Attribute(i, "Attribute", NoneSize, {"Read"})
             ELSE IF i = 3 THEN Attribute(i, "Attribute", NewSize(0), {"Read"})
             ELSE Attribute(i, "Attribute", NewSize(1), {"Read", "Write"})

\* a list of n attributes, the entity id first
MakeAttrs(n, kind) ==
    [j \in 1..n |-> IF j = 1 THEN EntityIdAttribute ELSE AttributeOfKind(j - 1, kind)]

Outcome(state, n, kind, actions, optional, access, hidden) ==
    [state |-> state, len |-> n, kind |-> kind, actions |-> actions,
     optional_actions |-> optional, access |-> access, hidden |-> hidden]

\* what deep_parse can leave on an entity
ParseOutcomes ==
    { Outcome("complete", 6, "good", {"Get", "Set"}, {}, "UnknownAccess", FALSE),
      Outcome("complete", 10, "good", {"Create", "Delete", "Get", "Set"}, {},
              "UnknownAccess", FALSE),
      Outcome("complete", 17, "repeat", {"Get", "GetNext"}, {"GetCurrentData"},
              "CreatedByOnu", TRUE),
      Outcome("complete", 18, "good", {"Create", "Get"}, {}, "CreatedByOnu", FALSE),
      Outcome("complete", 18, "mixed", {}, {}, "UnknownAccess", FALSE),
      Outcome("complete", 6, "mixed", {"Get"}, {}, "UnknownAccess", FALSE),
      Outcome("complete", 6, "no_access", {"Get"}, {}, "CreatedByOlt", FALSE),
      Outcome("complete", 6, "none_access", {"Get"}, {}, "UnknownAccess", FALSE),
      Outcome("complete", 6, "no_size", {"Get", "Set"}, {}, "UnknownAccess", FALSE),
      Outcome("complete", 6, "zero_size", {"Get", "Set"}, {}, "UnknownAccess", FALSE),
      Outcome("complete", 0, "good", {"Get"}, {}, "UnknownAccess", FALSE),
      Outcome("complete", 2, "good", {}, {}, "UnknownAccess", FALSE),
      Outcome("failure", 6, "good", {"Get", "Set"}, {}, "UnknownAccess", FALSE),
      Outcome("failure", 0, "good", {}, {}, "UnknownAccess", FALSE) }

\* c.deep_parse(paragraphs) leaving outcome o
DeepParsed(c, o) ==
    [c EXCEPT !.state = o.state, !.access = o.access, !.hidden = o.hidden,
              !.alarms = IF o.hidden THEN {1, 2} ELSE {},
              !.avcs = IF o.kind = "repeat" THEN <<"avc", o.len>> ELSE <<>>,
              !.test_results = IF o.hidden THEN {7} ELSE {}]

-----------------------------------------------------------------------------
(* Main.start                                                              *)

\* the managed entities start skips for their document formatting
crazy_formatted_mes == {23, 319, 320, 164, 165, 157, 415}

\* the class ids the listing section can yield
ParserIds == {2, 23, 153, 289, 321, 322}

\* the most class ids one run lists
MaxClasses == 2

Sections == {None, "9.1.1"}

\* the hint files a run can load
HintChoices ==
    { <<>>,
      [c \in {321} |-> [i \in {1, 99} |->
          [f \in {"type", "default"} |-> IF f = "type" THEN "Enumeration" ELSE "0"]]] }

\* todo_class_ids, then final_class_ids: not skipped, and with a section
FinalClassIds(cat) ==
    {c \in DOMAIN cat : c \notin crazy_formatted_mes /\ cat[c].section # None}

\* the running state of a pass over the class list ids
Running(ids) ==
    [cat |-> [c \in ids |-> class_ids[c]], lists |-> attr_lists, sets |-> action_sets,
     err |-> None, ix |-> index_error, copied |-> copied]

\* the catalog once a pass over some of its entities has changed them
Merged(st) ==
    [c \in DOMAIN class_ids |-> IF c \in DOMAIN st.cat THEN st.cat[c] ELSE class_ids[c]]

Idle == /\ fixup = <<0, 0>> /\ before = <<>> /\ once = <<>>
        /\ types_cid = 0 /\ table = <<>> /\ row = 0 /\ avc = None

Init ==
    /\ pc = "start"
    /\ class_ids = <<>>
    /\ attr_lists = <<>>
    /\ action_sets = <<>>
    /\ attribute_hints = <<>>
    /\ index_error \in {"IndexError", "KeyError"}
    /\ error = None
    /\ defects = NoDefects
    /\ copied = <<>>
    /\ Idle

\* the hints are loaded and every listed class id is added to the catalog
LoadClassIds ==
    /\ pc = "start"
    /\ \E S \in SUBSET ParserIds :
          /\ S # {} /\ Cardinality(S) <= MaxClasses
          /\ \E sec \in [S -> Sections] :
                class_ids' = [c \in S |-> NewClassId(c, sec[c])]
          /\ attr_lists' = [c \in S |-> <<>>]
          /\ action_sets' = [r \in {2 * c : c \in S} \cup {2 * c + 1 : c \in S} |-> {}]
    /\ attribute_hints' \in HintChoices
    /\ pc' = "parse"
    /\ UNCHANGED <<index_error, error, defects, fixup, before, once, copied,
                   types_cid, table, row, avc>>

\* one round of the loop over final_class_ids
DeepParse(c) ==
    /\ pc = "parse"
    /\ c \in FinalClassIds(class_ids)
    /\ class_ids[c].state = "pending"
    /\ IF class_ids[c].section = None
       THEN /\ class_ids' = [class_ids EXCEPT ![c] = Failure(@)]
            /\ UNCHANGED <<attr_lists, action_sets>>
       ELSE \E o \in ParseOutcomes :
            /\ class_ids' = [class_ids EXCEPT ![c] = DeepParsed(@, o)]
            /\ attr_lists' = [attr_lists EXCEPT ![c] = MakeAttrs(o.len, o.kind)]
            /\ action_sets' = [action_sets EXCEPT ![2 * c] = o.actions,
                                                  ![2 * c + 1] = o.optional_actions]
    /\ UNCHANGED <<pc, attribute_hints, index_error, error, defects, fixup, before,
                   once, copied, types_cid, table, row, avc>>

\* final_class_ids = self.fix_difficult_class_ids(final_class_ids)
FixDifficult ==
    /\ pc = "parse"
    /\ \A c \in FinalClassIds(class_ids) : class_ids[c].state # "pending"
    /\ LET st == FixDifficultClassIds(Running(FinalClassIds(class_ids)), attribute_hints)
       IN  /\ class_ids' = Merged(st)
           /\ attr_lists' = st.lists
           /\ action_sets' = st.sets
           /\ copied' = st.copied
           /\ error' = st.err
           /\ pc' = IF st.err = None THEN "access" ELSE "crashed"
    /\ UNCHANGED <<attribute_hints, index_error, defects, fixup, before, once,
                   types_cid, table, row, avc>>

\* final_class_ids = self.find_class_access(final_class_ids)
FindAccess ==
    /\ pc = "access"
    /\ class_ids' = Merged(FindClassAccess(Running(FinalClassIds(class_ids))))
    /\ pc' = "validate"
    /\ UNCHANGED <<attr_lists, action_sets, attribute_hints, index_error, error,
                   defects, fixup, before, once, copied, types_cid, table, row, avc>>

\* the validation loop, and the save that ends start
ValidateAll ==
    /\ pc = "validate"
    /\ LET st == Running(FinalClassIds(class_ids))
       IN  /\ class_ids' = Merged(Validate(st))
           /\ defects' = Defects(st)
    /\ pc' = "done"
    /\ UNCHANGED <<attr_lists, action_sets, attribute_hints, index_error, error,
                   fixup, before, once, copied, types_cid, table, row, avc>>

Next ==
    \/ LoadClassIds
    \/ \E c \in ParserIds : DeepParse(c)
    \/ FixDifficult
    \/ FindAccess
    \/ ValidateAll

Spec == Init /\ [][Next]_vars

-----------------------------------------------------------------------------
(* Main.fix_difficult_class_ids on its own: SpecFix draws a class list, a  *)
(* target class and bystanders, and applies either one fixup, up to        *)
(* MaxApplications times, or the whole overlay.                            *)

\* the class ids a drawn class list can hold
FixUniverse == FixIds \cup {322, 334}

\* the classes drawn beside the target
Bystanders == {289, 322, 334}

\* the most bystanders of one class list
MaxBystanders == 1

\* the most applications of one fixup
MaxApplications == 2

\* what the parse left on the target
TargetOutcomes ==
    { Outcome("complete", 2, "good", {"Get", "Set"}, {}, "UnknownAccess", FALSE),
      Outcome("complete", 10, "good", {"Get", "Set", "GetNext"}, {},
              "UnknownAccess", FALSE),
      Outcome("complete", 17, "good", {"Get"}, {}, "UnknownAccess", FALSE),
      Outcome("complete", 20, "good", {"Create", "Get"}, {}, "UnknownAccess", FALSE),
      Outcome("complete", 10, "no_size", {"Get", "Set"}, {}, "UnknownAccess", FALSE),
      Outcome("complete", 10, "none_access", {}, {}, "UnknownAccess", FALSE),
      Outcome("failure", 17, "repeat", {"Get", "GetNext"}, {"GetCurrentData"},
              "CreatedByOnu", TRUE) }

\* what the parse left on a bystander
BystanderOutcomes ==
    { Outcome("complete", 2, "good", {"Get", "Set"}, {}, "UnknownAccess", FALSE),
      Outcome("complete", 17, "good", {"Get"}, {}, "UnknownAccess", FALSE),
      Outcome("failure", 17, "repeat", {"Get", "GetNext"}, {"GetCurrentData"},
              "CreatedByOnu", TRUE) }

\* the hints of the runs of SpecFix
FixHints ==
    [c \in {321} |-> [i \in {1, 99} |->
        [f \in {"type", "default"} |-> IF f = "type" THEN "Enumeration" ELSE "0"]]]

\* the catalog as a deep comparison sees it
View == CatalogView(Running(DOMAIN class_ids))

InitFix ==
    /\ pc = "fix"
    /\ \E t \in FixUniverse, O \in SUBSET Bystanders :
          /\ Cardinality(O) <= MaxBystanders
          /\ t \notin O
          /\ \E ot \in TargetOutcomes, ob \in [O -> BystanderOutcomes] :
                LET S == {t} \cup O
                    o == [c \in S |-> IF c = t THEN ot ELSE ob[c]]
                IN  /\ class_ids = [c \in S |-> DeepParsed(NewClassId(c, "9.1.1"), o[c])]
                    /\ attr_lists = [c \in S |-> MakeAttrs(o[c].len, o[c].kind)]
                    /\ action_sets =
                           [r \in {2 * c : c \in S} \cup {2 * c + 1 : c \in S} |->
                               IF r % 2 = 0 THEN o[r \div 2].actions
                               ELSE o[r \div 2].optional_actions]
    /\ attribute_hints = FixHints
    /\ index_error \in {"IndexError", "KeyError"}
    /\ error = None
    /\ defects = NoDefects
    /\ copied = <<>>
    /\ fixup = <<0, 0>>
    /\ before = View
    /\ once = <<>>
    /\ types_cid = 0 /\ table = <<>> /\ row = 0 /\ avc = None

\* the fixup of class id c, alone
ApplyFixup(c) ==
    /\ pc = "fix"
    /\ fixup = <<0, 0>> \/ (fixup[1] = c /\ fixup[2] < MaxApplications)
    /\ LET st == FixOne(c, Running(DOMAIN class_ids))
       IN  /\ class_ids' = st.cat
           /\ attr_lists' = st.lists
           /\ action_sets' = st.sets
           /\ copied' = st.copied
           /\ error' = st.err
           /\ pc' = IF st.err = None THEN "fix" ELSE "crashed"
           /\ once' = IF fixup[2] = 0 THEN CatalogView(st) ELSE once
    /\ fixup' = <<c, fixup[2] + 1>>
    /\ UNCHANGED <<attribute_hints, index_error, defects, before, types_cid, table, row,
                   avc>>

\* the whole of fix_difficult_class_ids
FixAll ==
    /\ pc = "fix"
    /\ fixup = <<0, 0>>
    /\ LET st == FixDifficultClassIds(Running(DOMAIN class_ids), attribute_hints)
       IN  /\ class_ids' = st.cat
           /\ attr_lists' = st.lists
           /\ action_sets' = st.sets
           /\ copied' = st.copied
           /\ error' = st.err
           /\ pc' = IF st.err = None THEN "fixed" ELSE "crashed"
    /\ UNCHANGED <<attribute_hints, index_error, defects, fixup, before, once,
                   types_cid, table, row, avc>>

NextFix ==
    \/ \E c \in FixIds : ApplyFixup(c)
    \/ FixAll

SpecFix == InitFix /\ [][NextFix]_vars

-----------------------------------------------------------------------------
(* Main.find_attribute_types on its own: SpecTypes draws a class list as   *)
(* the structural fixups leave it and a hints file, and runs the loop over *)
(* class_list one class and one half of its body at a time.                *)

\* the class ids a drawn class list can hold
TypedUniverse == {153, 321, 322, 334, 426}

\* the most classes of one class list
MaxTyped == 2

\* what the parse left on a class of the list
TypedOutcomes ==
    { Outcome("complete", 6, "good", {"Get", "Set"}, {}, "UnknownAccess", FALSE),
      Outcome("complete", 17, "good", {"Get"}, {}, "UnknownAccess", FALSE),
      Outcome("complete", 17, "repeat", {"Get", "GetNext"}, {"GetCurrentData"},
              "CreatedByOnu", TRUE) }

\* the class ids a hints file names; 999 is in no class list
HintClasses == {321, 322, 426, 999}

\* the attribute indices a hints file names; no attribute has index 99
HintIndices == {{1}, {99}, {1, 99}}

\* the fields one attribute hint names, with their values
HintFields ==
    { [f \in {"type"} |-> "Enumeration"],
      [f \in {"type"} |-> "Unknown"],
      [f \in {"default"} |-> "0"],
      [f \in {"type", "default", "constraint"} |->
          CASE f = "type" -> "Enumeration" [] f = "default" -> "0" [] OTHER -> "0..7"] }

\* the hints files a run can load: none, or hints for one class
TypeHints ==
    {<<>>} \cup {[c \in {k} |-> [i \in I |-> h]] :
                    k \in HintClasses, I \in HintIndices, h \in HintFields}

\* the class list with the outcomes o of the parse on it
Parsed(S, o, ix) ==
    [cat |-> [c \in S |-> DeepParsed(NewClassId(c, "9.1.1"), o[c])],
     lists |-> [c \in S |-> MakeAttrs(o[c].len, o[c].kind)],
     sets |-> [r \in {2 * c : c \in S} \cup {2 * c + 1 : c \in S} |->
                  IF r % 2 = 0 THEN o[r \div 2].actions
                  ELSE o[r \div 2].optional_actions],
     err |-> None, ix |-> ix, copied |-> <<>>]

\* the cid the loop over class_list.items() takes after c, or 0 at its end
NextCid(S, c) ==
    LET later == {x \in S : x > c}
    IN  IF later = {} THEN 0 ELSE CHOOSE x \in later : \A y \in later : x <= y

InitTypes ==
    /\ pc = "hints"
    /\ index_error \in {"IndexError", "KeyError"}
    /\ \E S \in SUBSET TypedUniverse :
          /\ S # {} /\ Cardinality(S) <= MaxTyped
          /\ \E o \in [S -> TypedOutcomes] :
                LET st == FixOtherDifficulties(FixFrom(1, Parsed(S, o, index_error)))
                IN  /\ st.err = None
                    /\ class_ids = st.cat
                    /\ attr_lists = st.lists
                    /\ action_sets = st.sets
                    /\ copied = st.copied
                    /\ types_cid = NextCid(S, 0)
    /\ attribute_hints \in TypeHints
    /\ error = None
    /\ defects = NoDefects
    /\ fixup = <<0, 0>> /\ before = <<>> /\ once = <<>>
    /\ table = <<>> /\ row = 0 /\ avc = None

\* if cid in self.attribute_hints: the hints of the class, on its attributes
HintsOfItem ==
    /\ pc = "hints"
    /\ attr_lists' =
           IF types_cid \in DOMAIN attribute_hints
           THEN [attr_lists EXCEPT ![class_ids[types_cid].attributes] =
                    ApplyHints(@, attribute_hints[types_cid])]
           ELSE attr_lists
    /\ pc' = "infer"
    /\ UNCHANGED <<class_ids, action_sets, attribute_hints, index_error, error,
                   defects, fixup, before, once, copied, types_cid, table, row, avc>>

\* for attr in item.attributes: find_type on the unknown types; next class
TypesOfItem ==
    /\ pc = "infer"
    /\ attr_lists' = [attr_lists EXCEPT ![class_ids[types_cid].attributes] =
                         InferTypes(@)]
    /\ types_cid' = NextCid(DOMAIN class_ids, types_cid)
    /\ pc' = IF types_cid' = 0 THEN "typed" ELSE "hints"
    /\ UNCHANGED <<class_ids, action_sets, attribute_hints, index_error, error,
                   defects, fixup, before, once, copied, table, row, avc>>

NextTypes == HintsOfItem \/ TypesOfItem

SpecTypes == InitTypes /\ [][NextTypes]_vars

-----------------------------------------------------------------------------
(* AVC.create_from_table: SpecAVC draws a table and decodes it row by row. *)
(* A Number cell is kept by what int() and split('..') make of it: a       *)
(* single number, a range n..m, a NOTE, or other text.                     *)

Single(n, name) == [kind |-> "single", lo |-> n, hi |-> n, name |-> name]

Range(n, m, name) == [kind |-> "range", lo |-> n, hi |-> m, name |-> name]

Note(name) == [kind |-> "note", lo |-> 0, hi |-> 0, name |-> name]

Text(name) == [kind |-> "text", lo |-> 0, hi |-> 0, name |-> name]

\* the rows a table can hold
RowChoices ==
    { Single(4, "Link AVC"), Single(4, "N/A"), Single(5, "Reserved"),
      Single(16, "Link AVC"), Single(0, "Link AVC"), Single(17, "Link AVC"),
      Single(17, "n/a"),
      Range(3, 5, "Reserved"), Range(3, 5, "n/a"), Range(4, 6, "Link AVC"),
      Range(0, 1, "Reserved"), Range(15, 17, "Reserved"),
      Note("Link AVC"), Text("Link AVC") }

\* the most rows of a table
MaxRows == 3

RECURSIVE Tables(_)
\* the tables of n rows
Tables(n) ==
    IF n = 0 THEN {<<>>}
    ELSE {Append(t, r) : t \in Tables(n - 1), r \in RowChoices}

\* name.strip().lower()
Lower(name) ==
    CASE name = "N/A" -> "n/a"
      [] name = "Reserved" -> "reserved"
      [] name = "Link AVC" -> "link avc"
      [] OTHER -> name

\* name.strip().lower() not in ('n/a', 'Reserved')
IsAvc(name) == Lower(name) \notin {"n/a", "Reserved"}

\* AVC(table): no attribute of 0..16 has an AVC
NewAVC ==
    [none |-> FALSE, attributes |-> [attr \in 0..16 |-> [has_avc |-> FALSE, name |-> "N/A"]]]

\* the None that create_from_table returns
NoAVC == [NewAVC EXCEPT !.none = TRUE]

\* avc.attributes[value] = (is_avc, name.strip(), ...) for each value of S
WithEntries(a, S, is_avc, name) ==
    [a EXCEPT !.attributes = [attr \in 0..16 |->
        IF attr \in S THEN [has_avc |-> is_avc, name |-> name] ELSE a.attributes[attr]]]

\* the body of the loop over the rows, for row r: the AVC as it is after the
\* row, or NoAVC when an exception reaches the outer handler
RowDecoded(a, r) ==
    IF ~IsAvc(r.name) THEN a
    ELSE IF r.kind = "single"
         THEN IF 1 <= r.lo /\ r.lo <= 16
              THEN WithEntries(a, {r.lo}, IsAvc(r.name), r.name)
              ELSE NoAVC
    ELSE IF r.kind = "note" THEN a
    ELSE IF r.kind = "text" THEN NoAVC
    ELSE IF \A value \in r.lo..r.hi : 0 <= value /\ value <= 16
         THEN WithEntries(a, r.lo..r.hi, FALSE, r.name)
         ELSE NoAVC

InitAVC ==
    /\ pc = "avc_start"
    /\ table \in UNION {Tables(n) : n \in 0..MaxRows}
    /\ row = 0
    /\ avc = NoAVC
    /\ class_ids = <<>> /\ attr_lists = <<>> /\ action_sets = <<>>
    /\ attribute_hints = <<>> /\ index_error = "IndexError" /\ error = None
    /\ defects = NoDefects /\ copied = <<>>
    /\ fixup = <<0, 0>> /\ before = <<>> /\ once = <<>> /\ types_cid = 0

\* if len(table.rows) == 0: return None; avc = AVC(table)
CreateFromTable ==
    /\ pc = "avc_start"
    /\ IF Len(table) = 0
       THEN avc' = NoAVC /\ pc' = "avc_done"
       ELSE avc' = NewAVC /\ pc' = "avc_rows"
    /\ UNCHANGED <<class_ids, attr_lists, action_sets, attribute_hints, index_error,
                   error, defects, fixup, before, once, copied, types_cid, table, row>>

\* one round of the loop over table.rows
DecodeRow ==
    /\ pc = "avc_rows"
    /\ row < Len(table)
    /\ avc' = RowDecoded(avc, table[row + 1])
    /\ row' = row + 1
    /\ pc' = IF avc'.none THEN "avc_done" ELSE "avc_rows"
    /\ UNCHANGED <<class_ids, attr_lists, action_sets, attribute_hints, index_error,
                   error, defects, fixup, before, once, copied, types_cid, table>>

\* return avc
ReturnAVC ==
    /\ pc = "avc_rows"
    /\ row = Len(table)
    /\ pc' = "avc_done"
    /\ UNCHANGED <<class_ids, attr_lists, action_sets, attribute_hints, index_error,
                   error, defects, fixup, before, once, copied, types_cid, table, row,
                   avc>>

NextAVC == CreateFromTable \/ DecodeRow \/ ReturnAVC

SpecAVC == InitAVC /\ [][NextAVC]_vars

-----------------------------------------------------------------------------
(* Claims about Main.start, checked under Spec                             *)

AttributesOf(c) == attr_lists[class_ids[c].attributes]

ActionSetOf(c) == action_sets[class_ids[c].actions]

\* C1: once Main.start has finished, every class id of the catalog has
\* parse state complete or failure, the skipped and the section-less too.
C1_AllTerminal ==
    pc = "done" =>
        \A c \in DOMAIN class_ids : class_ids[c].state \in {"complete", "failure"}

\* C2: once Main.start has finished, every entity without a section has
\* state failure, no attributes and no actions.
C2_NoSectionFails ==
    pc = "done" =>
        \A c \in DOMAIN class_ids :
            class_ids[c].section = None =>
                /\ class_ids[c].state = "failure"
                /\ Len(AttributesOf(c)) = 0
                /\ ActionSetOf(c) = {}

\* C3: after the validation loop, every attribute of an entity whose state
\* is complete has a non-empty access set, a size, and a size of octets
\* other than 0.
C3_CompleteAttributesSound ==
    pc = "done" =>
        \A c \in DOMAIN class_ids :
            class_ids[c].state = "complete" =>
                \A j \in 1..Len(AttributesOf(c)) :
                    LET a == AttributesOf(c)[j]
                    IN  /\ a.access # NoneAccess
                        /\ a.access # {}
                        /\ a.size # NoneSize
                        /\ a.size.octets # 0

\* a validated entity that is complete and has attributes beside the entity id
C3_Witness ==
    /\ pc = "done"
    /\ \E c \in FinalClassIds(class_ids) :
          class_ids[c].state = "complete" /\ Len(AttributesOf(c)) > 1

\* C4: after the validation loop, no entity with more than 17 attributes
\* has state complete.
C4_TooManyNotComplete ==
    pc = "done" =>
        \A c \in DOMAIN class_ids :
            Len(AttributesOf(c)) > 17 => class_ids[c].state # "complete"

\* an entity with 18 sound attributes and actions, failed by the validation
C4_Witness ==
    /\ pc = "done"
    /\ \E c \in FinalClassIds(class_ids) :
          /\ Len(AttributesOf(c)) = 18
          /\ ActionSetOf(c) # {}
          /\ \A j \in 1..18 : LET a == AttributesOf(c)[j]
                              IN  a.access \notin {{}, NoneAccess} /\ a.size.octets > 0
          /\ class_ids[c].state = "failure"

\* C10 as stated: find_class_access classifies every entity of unknown
\* access, by Create when it is in the action set and as created by the ONU
\* in every other case, the empty action set included; an explicit
\* classification is kept.
C10_EveryUnknownClassified ==
    [][pc = "access" =>
          \A c \in FinalClassIds(class_ids) :
              class_ids'[c].access =
                  IF class_ids[c].access # "UnknownAccess" THEN class_ids[c].access
                  ELSE IF "Create" \in ActionSetOf(c) THEN "CreatedByOlt"
                  ELSE "CreatedByOnu"]_vars

\* C10 as amended: an entity of unknown access with a non-empty action set
\* is classified by Create; one with an empty action set stays unknown; an
\* explicit classification is kept.
C10_UnknownWithActionsClassified ==
    [][pc = "access" =>
          \A c \in FinalClassIds(class_ids) :
              class_ids'[c].access =
                  IF class_ids[c].access # "UnknownAccess" THEN class_ids[c].access
                  ELSE IF ActionSetOf(c) = {} THEN "UnknownAccess"
                  ELSE IF "Create" \in ActionSetOf(c) THEN "CreatedByOlt"
                  ELSE "CreatedByOnu"]_vars

\* find_class_access has run and left an entity without actions unknown,
\* beside one it classified as created by the OLT
C10_Witness ==
    /\ pc = "validate"
    /\ \E c, d \in FinalClassIds(class_ids) :
          /\ class_ids[c].access = "UnknownAccess" /\ ActionSetOf(c) = {}
          /\ class_ids[d].access = "CreatedByOlt" /\ "Create" \in ActionSetOf(d)

\* the defect collections whose defect kind is true of entity c as validation
\* finds it, every attribute of the entity looked at
DefectKindsOf(c) ==
    LET l == AttributesOf(c)
        A == {l[j] : j \in 1..Len(l)}
    IN  (IF class_ids[c].state # "complete" THEN {"class_with_issues"} ELSE {})
        \cup (IF ActionSetOf(c) = {} THEN {"class_with_no_actions"} ELSE {})
        \cup (IF Len(l) = 0 THEN {"class_with_no_attributes"} ELSE {})
        \cup (IF Len(l) > 17 THEN {"class_with_too_many_attributes"} ELSE {})
        \cup (IF \E a \in A : NoAccess(a) THEN {"attributes_with_no_access"} ELSE {})
        \cup (IF \E a \in A : NoSize(a) THEN {"attributes_with_no_size"} ELSE {})
        \cup (IF \E a \in A : ZeroSize(a) THEN {"attributes_with_zero_size"} ELSE {})

\* C11: validation records every defect kind that is true of an entity in
\* the collection of that kind, also when another kind is true of the same
\* entity, such as too many attributes together with an empty access set.
C11_EveryDefectCollected ==
    [][pc = "validate" =>
          \A c \in FinalClassIds(class_ids) :
              \A kind \in DefectKindsOf(c) : c \in defects'[kind]]_vars

\* C13: terminal states are sticky across the passes of Main.start: an
\* entity whose state is failure keeps it through every later step, so deep
\* parse, the fixups, hints and type inference, class-access derivation and
\* validation never set failure back to complete; validation only ever
\* changes complete to failure.
C13_FailureSticky ==
    [][\A c \in DOMAIN class_ids :
          class_ids[c].state = "failure" =>
              c \in DOMAIN class_ids' /\ class_ids'[c].state = "failure"]_vars

\* start has finished with an entity that validation finds no defect in
\* but whose parse had failed, still in state failure, beside an entity
\* with too many attributes
C13_Witness ==
    /\ pc = "done"
    /\ \E c, d \in FinalClassIds(class_ids) :
          /\ class_ids[c].state = "failure"
          /\ ~MarkedInvalid(AttributesOf(c), ActionSetOf(c))
          /\ defects.class_with_issues = {c, d}
          /\ Len(AttributesOf(d)) > MaxAttributes /\ class_ids[d].state = "failure"

-----------------------------------------------------------------------------
(* Claims about the structural fixups, checked under SpecFix               *)

\* the attribute indices the fixup of class id c reads or writes on its target
PatchedIndices(c) ==
    CASE c = 153 -> {4}
      [] c = 158 -> {3}
      [] c = 281 -> {9}
      [] c = 287 -> {1, 2}
      [] c = 288 -> {4, 5}
      [] c = 299 -> {3}
      [] c = 300 -> {3, 5}
      [] c = 307 -> {2}
      [] c = 308 -> {2}
      [] c = 310 -> {7, 8}
      [] c = 332 -> {7}
      [] OTHER -> {}

\* C6: a structural fixup applied twice leaves the catalog that one
\* application left.
C6_FixupIdempotent ==
    fixup[2] >= 2 => error = None /\ View = once

\* C9: a fixup whose target is absent from the catalog, or whose target
\* lacks an attribute index the fixup patches, raises nothing and leaves the
\* catalog as it was.
C9_MissingTargetNoOp ==
    LET c == fixup[1]
    IN  (/\ fixup[2] = 1
         /\ \/ c \notin DOMAIN before
            \/ \E i \in PatchedIndices(c) : i >= Len(before[c].attributes))
        => error = None /\ View = before

\* the fields a sibling copy takes over, attributes aside
CopiedFields(e) ==
    [actions |-> e.actions, optional_actions |-> e.optional_actions,
     alarms |-> e.alarms, avcs |-> e.avcs, test_results |-> e.test_results,
     hidden |-> e.hidden]

\* C7 as stated: once fix_difficult_class_ids has returned, the target of a
\* sibling copy (321 from 322, 426 from 334) has the attributes, actions,
\* optional actions, alarms, AVCs, test results and hidden flag the source
\* had when it was copied.
C7_CopyDeepEqual ==
    pc = "fixed" =>
        \A t \in DOMAIN copied :
            /\ CopiedFields(View[t]) = CopiedFields(copied[t])
            /\ View[t].attributes = copied[t].attributes

\* an attribute without the fields find_attribute_types sets
Untyped(a) ==
    [index |-> a.index, name |-> a.name, size |-> a.size, access |-> a.access,
     optional |-> a.optional, getnext_required |-> a.getnext_required]

\* C7 as amended: the target has the source's actions, optional actions,
\* alarms, AVCs, test results and hidden flag, and the source's attributes
\* up to the type, default and constraint that find_attribute_types sets
\* afterwards, and, for 426, up to the size of the attributes 3..16, which
\* is 8 octets.
C7_CopyEqualUpToSizeAndType ==
    pc = "fixed" =>
        \A t \in DOMAIN copied :
            LET got == View[t].attributes
                src == copied[t].attributes
            IN  /\ CopiedFields(View[t]) = CopiedFields(copied[t])
                /\ Len(got) = Len(src)
                /\ \A j \in 1..Len(src) :
                      Untyped(got[j]) =
                          IF t = 426 /\ j - 1 \in 3..16
                          THEN [Untyped(src[j]) EXCEPT
                                   !.size = [none |-> FALSE, octets |-> 8,
                                             repeat_count |-> 1, repeat_max |-> 1,
                                             getnext_required |-> FALSE]]
                          ELSE Untyped(src[j])

\* the overlay has returned after a sibling copy between two entities that
\* differed in attributes and in actions
C7_Witness ==
    /\ pc = "fixed"
    /\ \E t \in DOMAIN copied :
          /\ before[t].attributes # copied[t].attributes
          /\ before[t].actions # copied[t].actions
          /\ Len(copied[t].attributes) = 17

-----------------------------------------------------------------------------
(* Claims about AVC.create_from_table, checked under SpecAVC               *)

Rows == {table[i] : i \in 1..Len(table)}

\* a range row n..m with 0 <= n <= m <= 16
RangeInBounds(r) == r.kind = "range" /\ 0 <= r.lo /\ r.lo <= r.hi /\ r.hi <= 16

\* a row whose attribute number lies outside [0,16], or outside [1,16] for a
\* single number
OutOfRange(r) ==
    \/ r.kind = "single" /\ ~(1 <= r.lo /\ r.lo <= 16)
    \/ r.kind = "range" /\ \E value \in r.lo..r.hi : ~(0 <= value /\ value <= 16)

\* attribute index i has a single-number row of its own
StatedAlone(i) == \E r \in Rows : r.kind = "single" /\ r.lo = i

RECURSIVE DecodedFrom(_, _)
\* the AVC the rows of t leave, decoded in turn from a
DecodedFrom(a, t) ==
    IF t = <<>> THEN a ELSE DecodedFrom(RowDecoded(a, Head(t)), Tail(t))

\* C5: for every range row n..m with 0 <= n <= m <= 16 the resulting AVC
\* map has has_avc false for each index n..m that no single-number row of
\* the table states, whatever the row's name and the order of the rows.
C5_RangeExpandsToNoAvc ==
    pc = "avc_done" =>
        \A r \in Rows :
            RangeInBounds(r) =>
                /\ ~avc.none
                /\ \A i \in r.lo..r.hi :
                      ~StatedAlone(i) => ~avc.attributes[i].has_avc

\* C8: a row with an attribute number out of range is skipped, and the
\* other rows are decoded into the AVC map returned, which is not None.
C8_BadRowSkipped ==
    (/\ pc = "avc_done"
     /\ \E r \in Rows : OutOfRange(r)
     /\ \A r \in Rows : r.kind # "text")
    => /\ ~avc.none
       /\ avc = DecodedFrom(NewAVC, SelectSeq(table, LAMBDA r : ~OutOfRange(r)))

\* a name that is neither 'n/a' nor 'Reserved', compared case-insensitively
NamesAnAvc(name) == Lower(name) \notin {"n/a", "reserved"}

\* C15: in the AVC map returned, has_avc(i) is true only if the table has a
\* single-number row for i, 1 <= i <= 16, whose name is neither 'n/a' nor
\* 'Reserved' in any case; so a single-number row named 'Reserved' leaves
\* has_avc false and has_avc(0) is false for every table.
C15_HasAvcOnlyIfNamed ==
    (pc = "avc_done" /\ ~avc.none) =>
        \A i \in 0..16 :
            avc.attributes[i].has_avc =>
                \E r \in Rows : /\ r.kind = "single" /\ r.lo = i
                                /\ 1 <= i /\ i <= 16
                                /\ NamesAnAvc(r.name)

-----------------------------------------------------------------------------
(* Claims about Main.find_attribute_types, checked under SpecTypes         *)

\* the hint the class at hand has for the attribute at position j of the
\* attribute list r, as a set of at most one hint: the class owns the list,
\* the hint's index is the attribute's, and no earlier attribute has it
HintsFor(r, j) ==
    IF types_cid \in DOMAIN attribute_hints /\ class_ids[types_cid].attributes = r
    THEN LET l == attr_lists[r]
             hints == attribute_hints[types_cid]
         IN  {hints[i] : i \in {k \in DOMAIN hints :
                                   /\ l[j].index = k
                                   /\ \A n \in 1..(j - 1) : l[n].index # k}}
    ELSE {}

\* the field of a hint that sets field f of an attribute
HintFieldOf(f) == IF f = "attribute_type" THEN "type" ELSE f

C14_HintTouchesOneClass ==
    [][pc = "hints" =>
          \A d \in DOMAIN class_ids \ {types_cid} :
              attr_lists'[class_ids'[d].attributes] =
                  attr_lists[class_ids[d].attributes]]_vars

====
